---- MODULE Spec2Model ----
(***************************************************************************)
(* Model of boundedShapePredSOTA.py: the deterministic context-point       *)
(* samplers, the padded Bezier segment table of AugmentedDataset, the      *)
(* sentinel type codec, the renderers and the masked loss of train_batch.  *)
(*                                                                         *)
(* Every function of the source is an operator that computes what the      *)
(* code computes; a call is one action that takes the arguments chosen by  *)
(* Init and stores the result.  Coordinates are exact rationals <<n, d>>.  *)
(***************************************************************************)
EXTENDS Integers, Naturals, Sequences, FiniteSets, TLC

VARIABLES
    pc,        \* position of the modelled run: "call", "done", ...
    args,      \* the arguments of the call under study
    ret,       \* what the call returned (or that it raised)
    samples    \* AugmentedDataset.samples

vars == <<pc, args, ret, samples>>

Idle == [idle |-> TRUE]

(***************************************************************************)
(* Bounds of the model                                                     *)
(***************************************************************************)
MaxVerts == 3      \* longest polygon handed to the samplers
MaxN     == 3      \* largest N_total / N_interior
MaskW    == 2      \* width of the masks handed to the samplers
ScaleX   == 2      \* sx
ScaleY   == 3      \* sy

(***************************************************************************)
(* Arithmetic helpers                                                      *)
(***************************************************************************)
Min(a, b) == IF a <= b THEN a ELSE b
Max(a, b) == IF a >= b THEN a ELSE b
Abs(a) == IF a < 0 THEN -a ELSE a

RECURSIVE GCD(_, _)
GCD(a, b) == IF b = 0 THEN a ELSE GCD(b, a % b)

\* the rational n/d (d # 0) in lowest terms with a positive denominator
Rat(n, d) ==
    IF d < 0
    THEN <<(-n) \div GCD(Abs(n), Abs(d)), (-d) \div GCD(Abs(n), Abs(d))>>
    ELSE <<n \div GCD(Abs(n), Abs(d)), d \div GCD(Abs(n), Abs(d))>>

RInt(n) == <<n, 1>>
RAdd(p, q) == Rat(p[1] * q[2] + q[1] * p[2], p[2] * q[2])
RMul(p, q) == Rat(p[1] * q[1], p[2] * q[2])
RLeq(p, q) == p[1] * q[2] <= q[1] * p[2]
RAbs(r) == <<Abs(r[1]), r[2]>>
RSub(p, q) == Rat(p[1] * q[2] - q[1] * p[2], p[2] * q[2])

RECURSIVE SumSeq(_)
SumSeq(s) == IF s = <<>> THEN 0 ELSE Head(s) + SumSeq(Tail(s))

\* np.ceil(np.sqrt(n)) for n >= 0
CeilSqrt(n) == CHOOSE s \in 0..n : s * s >= n /\ (s = 0 \/ (s - 1) * (s - 1) < n)

\* np.hypot on the integer vectors of the model (all lengths are integers)
Hypot(dx, dy) == CHOOSE r \in 0..(Abs(dx) + Abs(dy)) : r * r = dx * dx + dy * dy

\* np.linspace(0, stop, num, dtype=int)[k], k in 0..num-1
LinspaceInt(stop, num, k) == IF num = 1 THEN 0 ELSE (stop * k) \div (num - 1)

\* np.linspace(0, stop, num)[k], k in 0..num-1
Linspace(stop, num, k) == IF num = 1 THEN RInt(0) ELSE Rat(stop * k, num - 1)

\* x / (W - 1 + 1e-9) for a pixel coordinate x in 0..W-1
Normalize(x, W) == IF W = 1 THEN x ELSE RMul(x, Rat(1, W - 1))

(***************************************************************************)
(* Inputs of the samplers                                                  *)
(***************************************************************************)
\* polygon vertices: corners of a 3 x 4 rectangle, so every edge is integer
Corners == {<<0, 0>>, <<3, 0>>, <<0, 4>>}

VertLists == UNION {[1..n -> Corners] : n \in 0..MaxVerts}

Polygons == {[present |-> FALSE, v |-> <<>>]} \cup
            {[present |-> TRUE, v |-> s] : s \in VertLists}

MaskH == 2        \* height of the masks handed to the samplers

Pixels == (0..(MaskW - 1)) \X (0..(MaskH - 1))

\* a mask is its set of foreground pixels <<x, y>>
Masks == {[present |-> FALSE, fg |-> {}]} \cup
         {[present |-> TRUE, fg |-> f] : f \in SUBSET Pixels}

Pt(x, y) == <<x, y>>
VertPt(v) == Pt(RInt(v[1]), RInt(v[2]))

Returned(points) == [raised |-> FALSE, pts |-> points]
Raised == [raised |-> TRUE, pts |-> <<>>]

(***************************************************************************)
(* generate_deterministic_context_points                                   *)
(***************************************************************************)
\* closed loop of the polygon: edge j (1..n) goes from v[j] to v[j % n + 1]
EdgeVec(v, j) == LET a == v[j]
                     b == v[(j % Len(v)) + 1]
                 IN  <<b[1] - a[1], b[2] - a[2]>>

EdgeLens(v) == [j \in 1..Len(v) |-> Hypot(EdgeVec(v, j)[1], EdgeVec(v, j)[2])]

\* cum[j], j in 0..n : np.concatenate([[0], np.cumsum(lens)])
Cum(lens, j) == SumSeq(SubSeq(lens, 1, j))

\* np.searchsorted(cum, d, side='right') - 1 for d = dn/dd, as a 0-based index
SearchEdge(lens, dn, dd) ==
    Cardinality({j \in 0..Len(lens) : Cum(lens, j) * dd <= dn}) - 1

\* the extra boundary point number k (0-based) of `extra`, or that lens[i] raised
ExtraPoint(v, extra, k) ==
    LET lens  == EdgeLens(v)
        perim == SumSeq(lens)
        i     == SearchEdge(lens, perim * k, extra)
    IN  IF i >= Len(lens)
        THEN [ok |-> FALSE, i |-> i, p |-> Pt(RInt(0), RInt(0))]
        ELSE LET t   == IF lens[i + 1] = 0 THEN RInt(0)
                        ELSE Rat(perim * k - Cum(lens, i) * extra, extra * lens[i + 1])
                 vec == EdgeVec(v, i + 1)
             IN  [ok |-> TRUE, i |-> i,
                  p  |-> Pt(RAdd(RInt(v[i + 1][1]), RMul(t, RInt(vec[1]))),
                            RAdd(RInt(v[i + 1][2]), RMul(t, RInt(vec[2]))))]

BoundarySampling(poly, N_boundary) ==
    IF N_boundary > 0 /\ poly.present /\ Len(poly.v) >= 2
    THEN LET v          == poly.v
             take_verts == Min(Len(v), N_boundary)
             extra      == N_boundary - take_verts
             first      == [j \in 1..take_verts |-> VertPt(v[j])]
         IN  IF extra > 0
             THEN IF \E k \in 0..(extra - 1) : ~ExtraPoint(v, extra, k).ok
                  THEN Raised
                  ELSE Returned(first \o [k \in 1..extra |-> ExtraPoint(v, extra, k - 1).p])
             ELSE Returned(first)
    ELSE Returned(<<>>)

\* np.where(parent_bin > 0): the foreground pixels in row-major order
RECURSIVE WhereFrom(_, _, _, _)
WhereFrom(fg, W, H, q) ==
    IF q >= W * H THEN <<>>
    ELSE LET px == <<q % W, q \div W>>
         IN  (IF px \in fg THEN <<px>> ELSE <<>>) \o WhereFrom(fg, W, H, q + 1)

Where(fg, W, H) == WhereFrom(fg, W, H, 0)

ScaledPixel(px, W, H, sx, sy) ==
    Pt(RMul(Normalize(RInt(px[1]), W), RInt(sx)), RMul(Normalize(RInt(px[2]), H), RInt(sy)))

\* a sampler that fills the missing points with the constant (0, 0)
InteriorZeros(poly, mask, needed, W, H, sx, sy) ==
    [k \in 1..needed |-> Pt(RInt(0), RInt(0))]

InteriorSampling(poly, mask, needed, W, H, sx, sy) ==
    LET fgs == Where(mask.fg, W, H)
        M   == Len(fgs)
    IN  IF M > 0
        THEN [k \in 1..needed |->
                ScaledPixel(fgs[LinspaceInt(M - 1, needed, k - 1) + 1], W, H, sx, sy)]
        ELSE IF poly.present /\ Len(poly.v) > 0
        THEN [k \in 1..needed |-> VertPt(poly.v[((k - 1) % Len(poly.v)) + 1])]
        ELSE LET side == CeilSqrt(needed)
             IN  [k \in 1..needed |->
                    Pt(RMul(Normalize(Linspace(W - 1, side, (k - 1) % side), W), RInt(sx)),
                       RMul(Normalize(Linspace(H - 1, side, (k - 1) \div side), H), RInt(sy)))]

generate_deterministic_context_points(poly, mask, N_total, N_boundary, W, H, sx, sy) ==
    LET b == BoundarySampling(poly, N_boundary)
    IN  IF b.raised THEN Raised
        ELSE LET needed == N_total - Len(b.pts)
                 pts    == IF needed > 0 /\ mask.present
                           THEN b.pts \o InteriorSampling(poly, mask, needed, W, H, sx, sy)
                           ELSE b.pts
             IN  Returned(IF Len(pts) > N_total THEN SubSeq(pts, 1, N_total) ELSE pts)

\* the calls with a given N_total: 0 <= N_boundary <= N_total
SamplerArgs(nt) ==
    {[poly |-> p, mask |-> m, N_total |-> nt, N_boundary |-> nb] :
        p \in Polygons, m \in Masks, nb \in 0..nt}

InitSampler ==
    /\ pc = "call"
    /\ \E nt \in 0..MaxN : args \in SamplerArgs(nt)
    /\ ret = Idle
    /\ samples = <<>>

CallSampler ==
    /\ pc = "call"
    /\ ret' = generate_deterministic_context_points(args.poly, args.mask, args.N_total,
                  args.N_boundary, MaskW, MaskH, ScaleX, ScaleY)
    /\ pc' = "done"
    /\ UNCHANGED <<args, samples>>

NextSampler == CallSampler

SpecSampler == InitSampler /\ [][NextSampler]_vars

\* C1: generate_deterministic_context_points returns exactly N_total points
\* for every input with 0 <= N_boundary <= N_total (mask absent, empty or
\* non-empty; polygon absent or of any number of vertices).
C1_ExactlyNTotal ==
    pc = "done" => (~ret.raised /\ Len(ret.pts) = args.N_total)

(***************************************************************************)
(* generate_deterministic_context_points_gpu                               *)
(***************************************************************************)
\* torch.linspace(0.0, perim, steps=extra)[k] as the fraction dn/dd
GpuDistNum(perim, extra, k) == IF extra = 1 THEN 0 ELSE perim * k
GpuDistDen(extra) == IF extra = 1 THEN 1 ELSE extra - 1

\* (torch.bucketize(d, cum) - 1).clamp(0, n - 1), as a 0-based index
BucketizeEdge(lens, dn, dd) ==
    LET raw == Cardinality({j \in 0..Len(lens) : Cum(lens, j) * dd < dn}) - 1
    IN  Max(0, Min(raw, Len(lens) - 1))

GpuExtraPoint(v, extra, k) ==
    LET lens  == EdgeLens(v)
        perim == SumSeq(lens)
        dn    == GpuDistNum(perim, extra, k)
        dd    == GpuDistDen(extra)
        i     == BucketizeEdge(lens, dn, dd)
        t     == IF lens[i + 1] = 0 THEN RInt(0)
                 ELSE Rat(dn - Cum(lens, i) * dd, dd * lens[i + 1])
        vec   == EdgeVec(v, i + 1)
    IN  Pt(RAdd(RInt(v[i + 1][1]), RMul(t, RInt(vec[1]))),
           RAdd(RInt(v[i + 1][2]), RMul(t, RInt(vec[2]))))

ZeroPt == Pt(RInt(0), RInt(0))

GpuBoundary(poly, N_boundary) ==
    IF N_boundary > 0 /\ poly.present /\ Len(poly.v) >= 1
    THEN LET v     == poly.v
             extra == N_boundary - Len(v)
             all   == [j \in 1..Len(v) |-> VertPt(v[j])]
         IN  IF extra > 0
             THEN all \o [k \in 1..extra |-> GpuExtraPoint(v, extra, k - 1)]
             ELSE all
    ELSE [k \in 1..N_boundary |-> ZeroPt]

RFloor(r) == r[1] \div r[2]

\* the g*g grid candidates, in the order of xx.reshape(-1), yy.reshape(-1)
GridCand(W, H, g, q) == Pt(Linspace(W - 1, g, q % g), Linspace(H - 1, g, q \div g))

RECURSIVE ValidFrom(_, _, _, _, _)
ValidFrom(fg, W, H, g, q) ==
    IF q >= g * g THEN <<>>
    ELSE LET c == GridCand(W, H, g, q)
         IN  (IF <<RFloor(c[1]), RFloor(c[2])>> \in fg THEN <<c>> ELSE <<>>)
                 \o ValidFrom(fg, W, H, g, q + 1)

GpuNormalize(c, W, H) == Pt(Normalize(c[1], W), Normalize(c[2], H))

\* step 2 of the function: the N_interior interior points, or the raise of
\* valid[-1:].expand(N_interior - Mv, 2) on an empty `valid`
GpuInterior(mask, N_interior, W, H) ==
    IF N_interior > 0 /\ mask.present
    THEN LET g     == CeilSqrt(N_interior)
             valid == ValidFrom(mask.fg, W, H, g, 0)
             Mv    == Len(valid)
         IN  IF Mv >= N_interior
             THEN Returned([k \in 1..N_interior |-> GpuNormalize(valid[k], W, H)])
             ELSE IF Mv = 0
             THEN Raised
             ELSE Returned([k \in 1..N_interior |->
                              GpuNormalize(valid[Min(k, Mv)], W, H)])
    ELSE Returned([k \in 1..N_interior |-> ZeroPt])

generate_deterministic_context_points_gpu(poly, mask, N_total, N_boundary, N_interior, W, H) ==
    LET b  == GpuBoundary(poly, N_boundary)
        in == GpuInterior(mask, N_interior, W, H)
    IN  IF in.raised THEN Raised
        ELSE LET pts == b \o in.pts
             IN  IF Len(pts) < N_total
                 THEN IF pts = <<>>
                      THEN Raised
                      ELSE Returned(SubSeq(pts \o [k \in 1..(N_total - Len(pts)) |-> pts[Len(pts)]],
                                           1, N_total))
                 ELSE Returned(SubSeq(pts, 1, N_total))

\* the calls with a given N_total: 0 <= N_boundary <= N_total
GpuArgs(nt) ==
    {[poly |-> p, mask |-> m, N_total |-> nt, N_boundary |-> nb, N_interior |-> ni] :
        p \in Polygons, m \in {k \in Masks : k.present},
        nb \in 0..nt, ni \in 0..MaxN}

InitGpu ==
    /\ pc = "call"
    /\ \E nt \in 0..MaxN : args \in GpuArgs(nt)
    /\ ret = Idle
    /\ samples = <<>>

CallGpu ==
    /\ pc = "call"
    /\ ret' = generate_deterministic_context_points_gpu(args.poly, args.mask, args.N_total,
                  args.N_boundary, args.N_interior, MaskW, MaskH)
    /\ pc' = "done"
    /\ UNCHANGED <<args, samples>>

NextGpu == CallGpu

SpecGpu == InitGpu /\ [][NextGpu]_vars

\* C10: generate_deterministic_context_points_gpu returns exactly N_total
\* points, without raising, for every mask, every polygon and all counts
\* N_boundary >= 0, N_interior >= 0 with N_boundary <= N_total.
C10_GpuExactlyNTotal ==
    pc = "done" => (~ret.raised /\ Len(ret.pts) = args.N_total)

(***************************************************************************)
(* The segment table: rows [c1x, c1y, c2x, c2y, ex, ey], sentinel -1       *)
(***************************************************************************)
max_segments == 30     \* PolygonConfig.max_segments and the literal 30 of __init__
MaxFitted    == 31     \* most segments a fitted outline has in the model
Canvas       == 3      \* canvas = max(W, H) of the scene image
NumPatterns  == 3      \* number of row patterns of the fitted outlines

Sentinel == RInt(-1)
IsNeg(r) == r[1] < 0

\* One row of the list returned by mask_to_bezier_sequence (module contour,
\* max_ctrl=2), in pixel coordinates 0..Canvas-1: a Line has both control
\* pairs at -1, a Quadratic the first pair only, a Cubic none.
RawRow(kind, i) ==
    LET c(k) == (i + k) % Canvas
    IN  CASE kind = 0 -> <<-1, -1, -1, -1, c(0), c(1)>>
          [] kind = 1 -> <<-1, -1, c(2), c(0), c(0), c(1)>>
          [] OTHER    -> <<c(1), c(2), c(2), c(0), c(0), c(1)>>

\* the n-row outline of pattern p: the kinds cycle Line, Quadratic, Cubic
mask_to_bezier_sequence(n, p) == [i \in 1..n |-> RawRow((i + p) % 3, i)]

FittedOutlines ==
    {mask_to_bezier_sequence(n, p) : n \in 0..MaxFitted, p \in 1..NumPatterns}

\* torch.tensor(raw, dtype=float32); t[t >= 0] /= float(canvas - 1)
NormalizeRow(row, canvas) ==
    [j \in 1..6 |-> IF row[j] >= 0 THEN Rat(row[j], canvas - 1) ELSE RInt(row[j])]

PadRow == [j \in 1..6 |-> Sentinel]

\* pad_len = 30 - t.size(0); torch.cat([t, -1 * torch.ones((pad_len, 6))]):
\* torch.ones raises on a negative pad_len
PadTable(segs_raw, canvas) ==
    LET pad_len == max_segments - Len(segs_raw)
    IN  IF pad_len < 0
        THEN [raised |-> TRUE, table |-> <<>>]
        ELSE [raised |-> FALSE,
              table  |-> [i \in 1..Len(segs_raw) |-> NormalizeRow(segs_raw[i], canvas)]
                             \o [i \in 1..pad_len |-> PadRow]]

(***************************************************************************)
(* AugmentedDataset.__init__ : the loop over the raw entries               *)
(***************************************************************************)
InitDataset ==
    /\ pc = "init"
    /\ args \in {[p_segs_raw |-> p, c_segs_raw |-> c] : p \in FittedOutlines, c \in FittedOutlines}
    /\ ret = Idle
    /\ samples = <<>>

\* one iteration of `for info in raw`: an exception leaves the constructor
LoadSample ==
    /\ pc = "init"
    /\ LET p_segs == PadTable(args.p_segs_raw, Canvas)
           gt     == PadTable(args.c_segs_raw, Canvas)
       IN  IF p_segs.raised \/ gt.raised
           THEN /\ pc' = "raised"
                /\ UNCHANGED samples
           ELSE /\ pc' = "built"
                /\ samples' = Append(samples,
                       [parent_bezier |-> p_segs.table,
                        gt_curves     |-> gt.table,
                        lengths       |-> Len(args.c_segs_raw)])
    /\ UNCHANGED <<args, ret>>

\* AugmentedDataset.__getitem__
getitem(idx) ==
    LET sample == samples[idx]
    IN  [parent_bezier |-> sample.parent_bezier,
         padding_mask  |-> [i \in 1..Len(sample.parent_bezier) |-> FALSE],
         gt_curves     |-> sample.gt_curves,
         lengths       |-> sample.lengths]

\* pad_sequence(tables, batch_first=True, padding_value=v)
pad_sequence(tables, v) ==
    LET T == IF tables = <<>> THEN 0
             ELSE CHOOSE m \in {Len(tables[b]) : b \in DOMAIN tables} :
                      \A b \in DOMAIN tables : Len(tables[b]) <= m
    IN  [b \in DOMAIN tables |->
            tables[b] \o [i \in 1..(T - Len(tables[b])) |-> [j \in 1..6 |-> v]]]

collate_fn(batch) ==
    LET parent_bezier == pad_sequence([b \in DOMAIN batch |-> batch[b].parent_bezier], Sentinel)
    IN  [parent_bezier |-> parent_bezier,
         padding_mask  |-> [b \in DOMAIN batch |->
                              [i \in 1..Len(parent_bezier[b]) |-> IsNeg(parent_bezier[b][i][1])]],
         gt_curves     |-> pad_sequence([b \in DOMAIN batch |-> batch[b].gt_curves], RInt(0)),
         lengths       |-> [b \in DOMAIN batch |-> batch[b].lengths]]

GetItem ==
    /\ pc = "built"
    /\ \E idx \in DOMAIN samples :
          ret' = [padding_mask |-> <<getitem(idx).padding_mask>>]
    /\ pc' = "item"
    /\ UNCHANGED <<args, samples>>

Collate ==
    /\ pc = "built"
    /\ ret' = [padding_mask |-> collate_fn([b \in DOMAIN samples |-> getitem(b)]).padding_mask]
    /\ pc' = "batch"
    /\ UNCHANGED <<args, samples>>

(***************************************************************************)
(* visualize_predictions: the ground-truth curves it plots                 *)
(***************************************************************************)
\* negs = int((seg[:4] == -1).sum()); stype = 0 if negs==4 else 1 if negs==2 else 2
VisType(seg) ==
    LET negs == Cardinality({j \in 1..4 : seg[j] = Sentinel})
    IN  IF negs = 4 THEN 0 ELSE IF negs = 2 THEN 1 ELSE 2

\* render_segment: the control polygon of the curve it samples
render_segment(start_pt, seg, seg_type) ==
    IF seg_type = 0 THEN <<start_pt, <<seg[5], seg[6]>> >>
    ELSE IF seg_type = 1 THEN <<start_pt, <<seg[3], seg[4]>>, <<seg[5], seg[6]>> >>
    ELSE <<start_pt, <<seg[1], seg[2]>>, <<seg[3], seg[4]>>, <<seg[5], seg[6]>> >>

\* gt_starts = np.roll(gt_ends, 1, axis=0); gt_starts[0] = gt_ends[-1]
GtStart(gt_segs, i) ==
    LET prev == IF i = 1 THEN gt_segs[Len(gt_segs)] ELSE gt_segs[i - 1]
    IN  <<prev[5], prev[6]>>

\* for seg, st in zip(gt_segs, gt_starts): one plotted curve per row
VisualizeGt(sample) ==
    LET gt_segs == sample.gt_curves
    IN  [i \in 1..Len(gt_segs) |->
            [row   |-> i - 1,
             stype |-> VisType(gt_segs[i]),
             curve |-> render_segment(GtStart(gt_segs, i), gt_segs[i], VisType(gt_segs[i]))]]

Visualize ==
    /\ pc = "built"
    /\ \E idx \in DOMAIN samples :
          ret' = [lengths |-> getitem(idx).lengths, plotted |-> VisualizeGt(getitem(idx))]
    /\ pc' = "drawn"
    /\ UNCHANGED <<args, samples>>

NextDataset == LoadSample \/ GetItem \/ Collate \/ Visualize

SpecDataset == InitDataset /\ [][NextDataset]_vars

\* C2: the padding_mask produced by __getitem__ and by collate_fn is true at
\* exactly the rows at index >= the parent's real segment count and false at
\* every real row, whatever the type of that row.
C2_PaddingMaskExact ==
    pc \in {"item", "batch"} =>
        \A b \in DOMAIN ret.padding_mask :
            \A i \in DOMAIN ret.padding_mask[b] :
                ret.padding_mask[b][i] <=> (i - 1 >= Len(args.p_segs_raw))

\* C3: for every fitted segment list, whatever its number of segments n
\* (including n > 30), the stored sample holds a table of exactly 30 rows with
\* lengths = n <= 30, its rows below n the fitted segments and the rest -1.
C3_TableOfThirtyRows ==
    pc # "init" =>
        /\ pc # "raised"
        /\ \A s \in DOMAIN samples :
              LET gt == samples[s].gt_curves
                  n  == samples[s].lengths
              IN  /\ Len(gt) = max_segments
                  /\ n = Len(args.c_segs_raw)
                  /\ n <= max_segments
                  /\ \A i \in 1..Len(gt) :
                        IF i <= n THEN gt[i] = NormalizeRow(args.c_segs_raw[i], Canvas)
                                  ELSE gt[i] = PadRow

\* C4: visualize_predictions draws a ground-truth segment only for rows of
\* gt_curves at index < length; a padding row is never rendered as a segment.
C4_NoPaddingRowPlotted ==
    pc = "drawn" =>
        \A i \in DOMAIN ret.plotted : ret.plotted[i].row < ret.lengths

(***************************************************************************)
(* The type a consumer infers from a row's sentinel pattern                *)
(***************************************************************************)
\* train_batch: gt_line = (c1 < 0).all & (c2 < 0).all,
\* gt_quad = (c1 < 0).all & ~(c2 < 0).all, gt_cubic = ~(gt_line | gt_quad)
TrainType(row) ==
    LET c1neg == IsNeg(row[1]) /\ IsNeg(row[2])
        c2neg == IsNeg(row[3]) /\ IsNeg(row[4])
    IN  IF c1neg /\ c2neg THEN 0 ELSE IF c1neg THEN 1 ELSE 2

\* the coordinate values a row of the study is built from
CoordValues == {RInt(-1), Rat(-1, 2), RInt(0), RInt(1)}

AnyRows == {<<a, b, c, d, RInt(1), RInt(0)>> : a \in CoordValues, b \in CoordValues,
                                                c \in CoordValues, d \in CoordValues}

InitCodec ==
    /\ pc = "call"
    /\ args \in {[row |-> r] : r \in AnyRows}
    /\ ret = Idle
    /\ samples = <<>>

InferTypes ==
    /\ pc = "call"
    /\ ret' = [vis |-> VisType(args.row), train |-> TrainType(args.row)]
    /\ pc' = "done"
    /\ UNCHANGED <<args, samples>>

NextCodec == InferTypes

SpecCodec == InitCodec /\ [][NextCodec]_vars

\* C5: for every 6-value row, the type visualize_predictions infers for a
\* ground-truth row is the type train_batch infers for that row.
C5_SameInferredType ==
    pc = "done" => ret.vis = ret.train

(***************************************************************************)
(* PolygonPredictor.forward: scaling and post-processing of the decoder    *)
(* outputs                                                                 *)
(***************************************************************************)
Inf == <<1, 0>>                      \* float('inf')
ClampMin == Rat(1, 1000000)          \* .clamp(min=1e-6)

RMin(S) == CHOOSE m \in S : \A x \in S : RLeq(m, x)
RMax(S) == CHOOSE m \in S : \A x \in S : RLeq(x, m)

\* torch.argmax of a row of scores, 0-based (first index of the maximum)
ArgMax(row) ==
    (CHOOSE k \in DOMAIN row :
        /\ \A j \in DOMAIN row : row[j] <= row[k]
        /\ \A j \in DOMAIN row : j < k => row[j] < row[k]) - 1

\* parent_bezier.reshape(B, -1, 2): the 3*T points of the parent table
ParentPts(parent_bezier) ==
    {<<parent_bezier[i][2 * k - 1], parent_bezier[i][2 * k]>> :
        i \in DOMAIN parent_bezier, k \in 1..3}

\* mask = parent_pts_reshaped[..., 0] != -1
PointMaskAll(pt) == TRUE
PointMask(pt) == pt[1] # Sentinel

\* parent_mins and parent_ranges for axis a (1 = x, 2 = y)
ParentMin(parent_bezier, a) ==
    LET vals == {pt[a] : pt \in {q \in ParentPts(parent_bezier) : PointMask(q)}}
    IN  IF vals = {} THEN Inf ELSE RMin(vals)

ParentRange(parent_bezier, a) ==
    LET vals == {pt[a] : pt \in {q \in ParentPts(parent_bezier) : PointMask(q)}}
        r    == IF vals = {} THEN ClampMin
                ELSE RAdd(RMax(vals), RMul(RInt(-1), RMin(vals)))
    IN  IF RLeq(ClampMin, r) THEN r ELSE ClampMin

\* scaled_child_pts = child_pts_reshaped * parent_ranges + parent_mins
ScaleCoord(c, range, mn) ==
    IF mn = Inf THEN Inf ELSE RAdd(RMul(c, range), mn)

\* a fill that takes the whole row of a predicted line
EncodeTypeWhole(row, t) ==
    [j \in 1..6 |-> IF t = 0 \/ (t = 1 /\ j <= 2) THEN Sentinel ELSE row[j]]

\* masked_fill_ of the control columns of a row of predicted type t
EncodeType(row, t) ==
    [j \in 1..6 |-> IF (t = 0 /\ j <= 4) \/ (t = 1 /\ j <= 2) THEN Sentinel ELSE row[j]]

\* decode_outputs_from_memory: stop_index = stop_scores.argmax(dim=1)
decode_outputs_from_memory(dec) ==
    [coords_normalized |-> dec.coords, types_logits |-> dec.types_logits,
     stop_index |-> ArgMax(dec.stop_scores), stop_scores |-> dec.stop_scores]

forward(dec, parent_bezier) ==
    LET out      == decode_outputs_from_memory(dec)
        mins     == <<ParentMin(parent_bezier, 1), ParentMin(parent_bezier, 2)>>
        ranges   == <<ParentRange(parent_bezier, 1), ParentRange(parent_bezier, 2)>>
        scaled   == [i \in DOMAIN out.coords_normalized |->
                       [j \in 1..6 |-> ScaleCoord(out.coords_normalized[i][j],
                                                  ranges[2 - (j % 2)], mins[2 - (j % 2)])]]
        typed    == [i \in DOMAIN scaled |-> EncodeType(scaled[i], ArgMax(out.types_logits[i]))]
        final    == [i \in DOMAIN typed |-> IF i - 1 > out.stop_index THEN PadRow ELSE typed[i]]
    IN  [segments |-> final, type_logits |-> out.types_logits,
         stops |-> out.stop_index, stop_scores |-> out.stop_scores]

\* what the decoder heads give for pattern p: sigmoid coordinates in [0, 1],
\* three type logits per row, and stop scores that peak at one position
UnitValues == <<RInt(0), Rat(1, 2), RInt(1)>>
LogitRows == <<<<2, 1, 0>>, <<0, 2, 1>>, <<1, 0, 2>>>>

DecoderOutputs(p, peak) ==
    [coords       |-> [i \in 1..max_segments |-> [j \in 1..6 |-> UnitValues[((i + j + p) % 3) + 1]]],
     types_logits |-> [i \in 1..max_segments |-> LogitRows[((i + p) % 3) + 1]],
     stop_scores  |-> [i \in 1..max_segments |-> IF i - 1 = peak THEN 2 ELSE 1]]

ParentTables ==
    {PadTable(mask_to_bezier_sequence(n, 1), Canvas).table : n \in 0..Min(MaxFitted, max_segments)}

InitForward ==
    /\ pc = "call"
    /\ args \in {[dec |-> DecoderOutputs(p, peak), parent_bezier |-> t] :
                    p \in 1..NumPatterns, peak \in 0..(max_segments - 1), t \in ParentTables}
    /\ ret = Idle
    /\ samples = <<>>

Forward ==
    /\ pc = "call"
    /\ ret' = forward(args.dec, args.parent_bezier)
    /\ pc' = "done"
    /\ UNCHANGED <<args, samples>>

NextForward == Forward

SpecForward == InitForward /\ [][NextForward]_vars

\* C6: in the output of PolygonPredictor.forward, for every row at or before
\* the stop index (parent coordinates non-negative), the type decoded from the
\* row's sentinel pattern is the type predicted for the row (argmax of its
\* logits), and re-encoding that type leaves the row unchanged.
C6_CodecRoundTrip ==
    pc = "done" =>
        \A i \in DOMAIN ret.segments :
            i - 1 <= ret.stops =>
                /\ TrainType(ret.segments[i]) = ArgMax(ret.type_logits[i])
                /\ EncodeType(ret.segments[i], TrainType(ret.segments[i])) = ret.segments[i]

\* a run where rows of all three predicted types lie at or before the stop
\* index and the parent has real points
C6_Witness ==
    /\ pc = "done"
    /\ ret.stops >= 2
    /\ ParentMin(args.parent_bezier, 1) # Inf
    /\ \A t \in 0..2 : \E i \in DOMAIN ret.segments :
          i - 1 <= ret.stops /\ ArgMax(ret.type_logits[i]) = t

(***************************************************************************)
(* bezier_curve and render_bezier_sequence                                 *)
(***************************************************************************)
MaxRender  == 2      \* most rows handed to render_bezier_sequence
MaxSamples == 3      \* largest n_samples_per_segment

PtAdd(p, q) == <<RAdd(p[1], q[1]), RAdd(p[2], q[2])>>
PtScale(a, p) == <<RMul(a, p[1]), RMul(a, p[2])>>

\* np.linspace(0, 1, n_points)[k], k in 0..n_points-1
Param(n_points, k) == IF n_points = 1 THEN RInt(0) ELSE Rat(k, n_points - 1)

\* (1-t)^3 p0 + 3 (1-t)^2 t c1 + 3 (1-t) t^2 c2 + t^3 p1 at every sample
bezier_curve(p0, c1, c2, p1, n_points) ==
    [k \in 1..n_points |->
        LET t == Param(n_points, k - 1)
            u == RSub(RInt(1), t)
        IN  PtAdd(PtAdd(PtScale(RMul(u, RMul(u, u)), p0),
                        PtScale(RMul(RInt(3), RMul(RMul(u, u), t)), c1)),
                  PtAdd(PtScale(RMul(RInt(3), RMul(u, RMul(t, t))), c2),
                        PtScale(RMul(t, RMul(t, t)), p1)))]

\* current_p0 before row i: the initial point, then the previous endpoint
RenderStart(rows, initial_p0, i) ==
    IF i = 1 THEN initial_p0 ELSE <<rows[i - 1][5], rows[i - 1][6]>>

\* a renderer that keeps the first sample of every segment
RenderedSegmentAll(rows, initial_p0, n, i) ==
    bezier_curve(RenderStart(rows, initial_p0, i),
                 <<rows[i][1], rows[i][2]>>, <<rows[i][3], rows[i][4]>>,
                 <<rows[i][5], rows[i][6]>>, n)

\* the points row i contributes: all of them for the first row, all but the
\* first for the others
RenderedSegment(rows, initial_p0, n, i) ==
    LET segment_points == bezier_curve(RenderStart(rows, initial_p0, i),
                                       <<rows[i][1], rows[i][2]>>, <<rows[i][3], rows[i][4]>>,
                                       <<rows[i][5], rows[i][6]>>, n)
    IN  IF i = 1 THEN segment_points ELSE Tail(segment_points)

RECURSIVE RenderFrom(_, _, _, _)
RenderFrom(rows, initial_p0, n, i) ==
    IF i > Len(rows) THEN <<>>
    ELSE RenderedSegment(rows, initial_p0, n, i) \o RenderFrom(rows, initial_p0, n, i + 1)

render_bezier_sequence(rows, initial_p0, n) == RenderFrom(rows, initial_p0, n, 1)

\* rows in the layout of the segment table, coordinates in [0, 1]
RenderRows == {NormalizeRow(RawRow(kind, i), Canvas) : kind \in 0..2, i \in 1..2}

InitRender ==
    /\ pc = "call"
    /\ args \in {[rows |-> r, initial_p0 |-> p, n |-> n] :
                    r \in UNION {[1..k -> RenderRows] : k \in 0..MaxRender},
                    p \in {<<RInt(0), RInt(0)>>, <<RInt(1), Rat(1, 2)>>},
                    n \in 2..MaxSamples}
    /\ ret = Idle
    /\ samples = <<>>

Render ==
    /\ pc = "call"
    /\ ret' = [points |-> render_bezier_sequence(args.rows, args.initial_p0, args.n)]
    /\ pc' = "done"
    /\ UNCHANGED <<args, samples>>

NextRender == Render

SpecRender == InitRender /\ [][NextRender]_vars

\* the Bezier curve of degree Len(ctrl) - 1 through the control polygon ctrl
RECURSIVE DeCasteljau(_, _)
DeCasteljau(ctrl, t) ==
    IF Len(ctrl) = 1 THEN ctrl[1]
    ELSE DeCasteljau([j \in 1..(Len(ctrl) - 1) |->
                         PtAdd(PtScale(RAdd(RInt(1), RMul(RInt(-1), t)), ctrl[j]),
                               PtScale(t, ctrl[j + 1]))], t)

\* the position in the rendered path of sample k (0-based) of row i
PathIndex(n, i, k) == (i - 1) * (n - 1) + k + 1

\* C7: render_bezier_sequence renders each row with the Bezier formula of the
\* row's inferred type (a Line as points on the straight segment from the
\* running start point to the endpoint, a Quadratic with its one real control
\* point, a Cubic with both); a sentinel pair is never used as a control point.
C7_RenderedByInferredType ==
    pc = "done" =>
        \A i \in DOMAIN args.rows : \A k \in 0..(args.n - 1) :
            ret.points[PathIndex(args.n, i, k)] =
                DeCasteljau(render_segment(RenderStart(args.rows, args.initial_p0, i),
                                           args.rows[i], TrainType(args.rows[i])),
                            Param(args.n, k))

(***************************************************************************)
(* train_batch: validity mask, curve loss and type loss                    *)
(***************************************************************************)
MaxS == 2                 \* largest S (predicted rows per sample)
lambda_curve == 2000
lambda_type  == 100
geom_scale   == 10        \* teacher_forcing is False

BatchSizes == {1, 2}

\* the exact sum of a sequence of rationals, added pairwise by halves
RECURSIVE RSumSeq(_)
RSumSeq(s) ==
    IF Len(s) = 0 THEN RInt(0)
    ELSE IF Len(s) = 1 THEN s[1]
    ELSE LET h == Len(s) \div 2
         IN  RAdd(RSumSeq(SubSeq(s, 1, h)), RSumSeq(SubSeq(s, h + 1, Len(s))))

RECURSIVE Flatten(_)
Flatten(ss) == IF ss = <<>> THEN <<>> ELSE Head(ss) \o Flatten(Tail(ss))

\* valid_mask = (torch.arange(S)[None, :] < lengths[:, None]).float()
ValidMaskLeq(lengths, S) == [b \in DOMAIN lengths |-> [s \in 1..S |-> s - 1 <= lengths[b]]]
ValidMaskOnes(lengths, S) == [b \in DOMAIN lengths |-> [s \in 1..S |-> TRUE]]
valid_mask(lengths, S) == [b \in DOMAIN lengths |-> [s \in 1..S |-> s - 1 < lengths[b]]]

\* err = (pred_for_curve - gt_for_curve).abs() * mask_for_curve.unsqueeze(-1)
CurveErr(pred_segments, gt_curves, mask, compare_len) ==
    [b \in DOMAIN pred_segments |->
        Flatten([s \in 1..compare_len |->
            [j \in 1..6 |->
                RMul(RAbs(RSub(pred_segments[b][s][j], gt_curves[b][s][j])),
                     IF mask[b][s] THEN RInt(1) ELSE RInt(0))]])]

\* (mask_for_curve.sum() * 6).clamp(min=1e-9)
NumValidCoords(mask, compare_len) ==
    LET n == SumSeq(Flatten([b \in DOMAIN mask |->
                 [s \in 1..compare_len |-> IF mask[b][s] THEN 1 ELSE 0]]))
    IN  IF n = 0 THEN Rat(1, 1000000000) ELSE RInt(6 * n)

\* t[mask.bool()] for t of shape [B, n, ...] and mask of shape [B, S]: the
\* selected rows in row-major order; the shapes must agree
BoolIndex(t, mask) ==
    IF \E b \in DOMAIN t : Len(t[b]) # Len(mask[b])
    THEN [raised |-> TRUE, rows |-> <<>>]
    ELSE [raised |-> FALSE,
          rows   |-> Flatten([b \in DOMAIN t |->
                        Flatten([s \in DOMAIN t[b] |->
                            IF mask[b][s] THEN <<t[b][s]>> ELSE <<>>])])]

\* gt_types_potential padded with type 0 up to S, or cut to S
GtTypesUnpadded(gt_curves, S, T_gt) ==
    [b \in DOMAIN gt_curves |-> [s \in 1..Min(T_gt, S) |-> TrainType(gt_curves[b][s])]]
gt_types_for_masking(gt_curves, S, T_gt) ==
    LET gt_types_source_len == Min(T_gt, S)
    IN  [b \in DOMAIN gt_curves |->
            [s \in 1..S |-> IF s <= gt_types_source_len
                            THEN TrainType(gt_curves[b][s]) ELSE 0]]

\* The loss terms of train_batch.  F.cross_entropy is a function of the
\* selected logits and labels, which stand for the type loss.
train_batch(batch) ==
    LET S        == batch.S
        T_gt_dim == batch.T_gt
        mask     == valid_mask(batch.lengths, S)
        compare_len_curve == Min(S, T_gt_dim)
        err      == CurveErr(batch.pred_segments, batch.gt_curves, mask, compare_len_curve)
        err_sum  == RSumSeq(Flatten(err))
        num_valid_coords == NumValidCoords(mask, compare_len_curve)
        type_logits_for_loss == BoolIndex(batch.type_logits, mask)
        gt_types_for_loss == BoolIndex(gt_types_for_masking(batch.gt_curves, S, T_gt_dim), mask)
        raised   == type_logits_for_loss.raised \/ gt_types_for_loss.raised
        mismatch == /\ ~raised
                    /\ Len(type_logits_for_loss.rows) > 0
                    /\ Len(type_logits_for_loss.rows) # Len(gt_types_for_loss.rows)
    IN  [valid_mask       |-> mask,
         err_sum          |-> err_sum,
         num_valid_coords |-> num_valid_coords,
         loss_curve       |-> RMul(RInt(lambda_curve * geom_scale),
                                   RMul(err_sum, <<num_valid_coords[2], num_valid_coords[1]>>)),
         raised           |-> raised,
         n_logits         |-> Len(type_logits_for_loss.rows),
         n_labels         |-> Len(gt_types_for_loss.rows),
         mismatch         |-> mismatch,
         loss_type        |-> IF raised \/ mismatch \/ Len(type_logits_for_loss.rows) = 0
                              THEN [logits |-> <<>>, labels |-> <<>>]
                              ELSE [logits |-> type_logits_for_loss.rows,
                                    labels |-> gt_types_for_loss.rows]]

\* what one position of a sample holds: a predicted row with its type logits,
\* and a ground-truth row
Contents ==
    <<[pred |-> <<RInt(-1), RInt(-1), Rat(1, 2), RInt(0), RInt(1), RInt(1)>>,
       logits |-> <<0, 2, 1>>,
       gt |-> <<RInt(-1), RInt(-1), RInt(1), Rat(1, 2), RInt(0), RInt(1)>>],
      [pred |-> <<RInt(0), RInt(1), RInt(1), Rat(1, 2), Rat(1, 2), RInt(0)>>,
       logits |-> <<1, 0, 2>>,
       gt |-> PadRow]>>

\* the batch whose sample b holds content cs[b][s] at position s
BatchOf(S, T_gt, lengths, cs) ==
    [S |-> S, T_gt |-> T_gt, lengths |-> lengths,
     pred_segments |-> [b \in DOMAIN cs |-> [s \in 1..S |-> Contents[cs[b][s]].pred]],
     type_logits   |-> [b \in DOMAIN cs |-> [s \in 1..S |-> Contents[cs[b][s]].logits]],
     gt_curves     |-> [b \in DOMAIN cs |-> [s \in 1..T_gt |-> Contents[cs[b][s]].gt]]]

\* the batches of B samples
Batches(B) ==
    UNION {UNION {
        {BatchOf(S, T_gt, lengths, cs) :
            lengths \in [1..B -> 0..S],
            cs \in [1..B -> [1..Max(S, T_gt) -> DOMAIN Contents]]} :
        T_gt \in {S - 1, S, S + 1}} : S \in 1..MaxS}

InitLoss ==
    /\ pc = "call"
    /\ \E B \in BatchSizes : args \in Batches(B)
    /\ ret = Idle
    /\ samples = <<>>

TrainBatch ==
    /\ pc = "call"
    /\ ret' = train_batch(args)
    /\ pc' = "done"
    /\ UNCHANGED <<args, samples>>

\* the same batch with other values at one padded position s >= lengths[b]
PerturbPadding ==
    /\ pc \in {"done", "perturbed"}
    /\ \E b \in DOMAIN args.lengths, s \in 1..Max(args.S, args.T_gt), k \in DOMAIN Contents :
          /\ s - 1 >= args.lengths[b]
          /\ args' = [args EXCEPT
                !.pred_segments[b] = [q \in 1..args.S |-> IF q = s THEN Contents[k].pred ELSE @[q]],
                !.type_logits[b]   = [q \in 1..args.S |-> IF q = s THEN Contents[k].logits ELSE @[q]],
                !.gt_curves[b]     = [q \in 1..args.T_gt |-> IF q = s THEN Contents[k].gt ELSE @[q]]]
          /\ args' # args
    /\ ret' = train_batch(args')
    /\ pc' = "perturbed"
    /\ UNCHANGED samples

NextLoss == TrainBatch \/ PerturbPadding

SpecLoss == InitLoss /\ [][NextLoss]_vars

\* C8: the curve loss and the type loss of train_batch depend only on rows at
\* valid positions: changing pred_segments, gt_curves and type_logits at a
\* position s >= length[b] changes neither loss, and neither the numerator
\* nor the denominator of the curve loss.
C8_PaddingDoesNotChangeLoss ==
    [][pc' = "perturbed" =>
          /\ ret'.loss_curve = ret.loss_curve
          /\ ret'.loss_type = ret.loss_type
          /\ ret'.err_sum = ret.err_sum
          /\ ret'.num_valid_coords = ret.num_valid_coords]_vars

\* a batch with valid and padded rows whose padded values were changed
C8_Witness ==
    /\ pc = "perturbed"
    /\ args.S >= 2
    /\ \E b \in DOMAIN args.lengths : args.lengths[b] >= 1 /\ args.lengths[b] < args.S
    /\ ret.err_sum # RInt(0)
    /\ ret.n_logits > 0

\* C9: the number of type-logit rows selected by the validity mask equals the
\* number of inferred ground-truth labels selected by it, for every S, T_gt
\* and lengths; the mismatch branch is never taken and the type term never
\* raises.
C9_LogitsMatchLabels ==
    pc \in {"done", "perturbed"} =>
        /\ ~ret.raised
        /\ ~ret.mismatch
        /\ ret.n_logits = ret.n_labels

\* a batch with T_gt < S and a length greater than T_gt
C9_Witness ==
    /\ pc = "done"
    /\ args.T_gt < args.S
    /\ \E b \in DOMAIN args.lengths : args.lengths[b] > args.T_gt
    /\ ret.n_logits > 0

(***************************************************************************)
(* Where the points of the samplers come from                              *)
(***************************************************************************)
\* p lies on the closed segment from vertex a to vertex b
OnEdge(p, a, b) ==
    LET dx    == b[1] - a[1]
        dy    == b[2] - a[2]
        qx    == RSub(p[1], RInt(a[1]))
        qy    == RSub(p[2], RInt(a[2]))
        cross == RSub(RMul(qx, RInt(dy)), RMul(qy, RInt(dx)))
        dot   == RAdd(RMul(qx, RInt(dx)), RMul(qy, RInt(dy)))
    IN  IF dx = 0 /\ dy = 0 THEN p = VertPt(a)
        ELSE /\ cross = RInt(0)
             /\ RLeq(RInt(0), dot)
             /\ RLeq(dot, RInt(dx * dx + dy * dy))

\* p is a vertex of the polygon or lies on an edge of its closed loop
OnPolygon(p, poly) ==
    /\ poly.present
    /\ \E j \in DOMAIN poly.v : OnEdge(p, poly.v[j], poly.v[(j % Len(poly.v)) + 1])

\* the normalized grid candidates that lie inside the mask foreground
InsideCandidates(mask, N_interior, W, H) ==
    IF N_interior > 0 /\ mask.present
    THEN LET valid == ValidFrom(mask.fg, W, H, CeilSqrt(N_interior), 0)
         IN  {GpuNormalize(valid[k], W, H) : k \in DOMAIN valid}
    ELSE {}

\* C11: no point returned by generate_deterministic_context_points_gpu is a
\* constant (0,0) filler: every returned point is a polygon vertex, a point
\* on a polygon edge, or the normalized coordinate of a grid candidate that
\* lies inside the mask foreground (or a repetition of such a point).
C11_GpuNoZeroFiller ==
    (pc = "done" /\ ~ret.raised) =>
        \A i \in DOMAIN ret.pts :
            \/ OnPolygon(ret.pts[i], args.poly)
            \/ ret.pts[i] \in InsideCandidates(args.mask, args.N_interior, MaskW, MaskH)

\* the scaled coordinates of the foreground pixels
ForegroundPoints(mask, W, H, sx, sy) ==
    IF mask.present THEN {ScaledPixel(px, W, H, sx, sy) : px \in mask.fg} ELSE {}

\* the points of the last-resort grids, used for an empty mask without polygon
FallbackGrid(poly, mask, N_total, W, H, sx, sy) ==
    IF mask.present /\ mask.fg = {} /\ ~(poly.present /\ Len(poly.v) > 0)
    THEN UNION {{Pt(RMul(Normalize(Linspace(W - 1, side, i), W), RInt(sx)),
                    RMul(Normalize(Linspace(H - 1, side, j), H), RInt(sy))) :
                    i \in 0..(side - 1), j \in 0..(side - 1)} : side \in 1..N_total}
    ELSE {}

\* C12: every point returned by generate_deterministic_context_points is a
\* real sampled point: a polygon vertex, a point interpolated on a polygon
\* edge, the scaled coordinate of a foreground pixel, or a point of the
\* fallback grid; (0,0) is never appended as filler to reach N_total.
C12_EveryPointSampled ==
    (pc = "done" /\ ~ret.raised) =>
        \A i \in DOMAIN ret.pts :
            \/ OnPolygon(ret.pts[i], args.poly)
            \/ ret.pts[i] \in ForegroundPoints(args.mask, MaskW, MaskH, ScaleX, ScaleY)
            \/ ret.pts[i] \in FallbackGrid(args.poly, args.mask, args.N_total,
                                           MaskW, MaskH, ScaleX, ScaleY)

\* a call that returned boundary points followed by interior points
C12_Witness ==
    /\ pc = "done"
    /\ ~ret.raised
    /\ args.poly.present /\ Len(args.poly.v) >= 2
    /\ args.N_boundary >= 1
    /\ args.N_total > args.N_boundary
    /\ args.mask.present /\ args.mask.fg # {}
    /\ Len(ret.pts) = args.N_total
    /\ Pt(RInt(0), RInt(0)) \notin ForegroundPoints(args.mask, MaskW, MaskH, ScaleX, ScaleY)

\* C13: when a polygon with k >= 1 vertices is supplied and N_boundary > 0,
\* the output of generate_deterministic_context_points begins with the first
\* min(k, N_boundary) polygon vertices, unchanged and in order, and when
\* k < N_boundary they are followed by N_boundary - k points on the closed
\* polygon's edges.
C13_BeginsWithVertices ==
    (pc = "done" /\ args.poly.present /\ Len(args.poly.v) >= 1 /\ args.N_boundary > 0) =>
        LET k == Len(args.poly.v)
        IN  /\ ~ret.raised
            /\ Len(ret.pts) >= args.N_boundary
            /\ \A j \in 1..Min(k, args.N_boundary) : ret.pts[j] = VertPt(args.poly.v[j])
            /\ \A j \in (k + 1)..args.N_boundary : OnPolygon(ret.pts[j], args.poly)

(***************************************************************************)
(* The joints of the rendered path                                         *)
(***************************************************************************)
\* C14: for K >= 1 rows and n >= 2 samples per segment render_bezier_sequence
\* returns exactly K*(n-1)+1 points: the first is the supplied initial point,
\* each segment starts at the previous segment's endpoint, and the point at
\* each internal joint appears exactly once (segment i occupies positions
\* (i-1)*(n-1)+1 .. i*(n-1)+1, sharing one position with its neighbour).
C14_JointsOnce ==
    (pc = "done" /\ Len(args.rows) >= 1) =>
        LET K == Len(args.rows)
            n == args.n
        IN  /\ Len(ret.points) = K * (n - 1) + 1
            /\ ret.points[1] = args.initial_p0
            /\ \A i \in 1..K :
                  /\ ret.points[PathIndex(n, i, n - 1)] = <<args.rows[i][5], args.rows[i][6]>>
                  /\ ret.points[PathIndex(n, i, 0)] = RenderStart(args.rows, args.initial_p0, i)
                  /\ \A k \in 0..(n - 1) :
                        ret.points[PathIndex(n, i, k)] =
                            bezier_curve(RenderStart(args.rows, args.initial_p0, i),
                                         <<args.rows[i][1], args.rows[i][2]>>,
                                         <<args.rows[i][3], args.rows[i][4]>>,
                                         <<args.rows[i][5], args.rows[i][6]>>, n)[k + 1]

\* a rendered path with an internal joint between two different endpoints
C14_Witness ==
    /\ pc = "done"
    /\ Len(args.rows) >= 2
    /\ args.n >= 3
    /\ <<args.rows[1][5], args.rows[1][6]>> # <<args.rows[2][5], args.rows[2][6]>>
    /\ Len(ret.points) = Len(args.rows) * (args.n - 1) + 1

(***************************************************************************)
(* The validity mask of train_batch                                        *)
(***************************************************************************)
\* C15: valid_mask[b, s] in train_batch is 1 exactly when s < length[b], for
\* every batch, every S and every length in 0..S; for lengths [3, 5] and
\* S = 6 it is [[1,1,1,0,0,0],[1,1,1,1,1,0]].
C15_ValidMaskExact ==
    /\ pc = "done" =>
          /\ DOMAIN ret.valid_mask = DOMAIN args.lengths
          /\ \A b \in DOMAIN args.lengths :
                /\ DOMAIN ret.valid_mask[b] = 1..args.S
                /\ \A s \in 1..args.S : ret.valid_mask[b][s] <=> (s - 1 < args.lengths[b])
    /\ valid_mask(<<3, 5>>, 6) = <<<<TRUE, TRUE, TRUE, FALSE, FALSE, FALSE>>,
                                  <<TRUE, TRUE, TRUE, TRUE, TRUE, FALSE>>>>

\* a batch of two samples, one empty and one of full length
C15_Witness ==
    /\ pc = "done"
    /\ args.S >= 2
    /\ \E b, c \in DOMAIN args.lengths : args.lengths[b] = 0 /\ args.lengths[c] = args.S
    /\ \E b \in DOMAIN args.lengths : \E s \in 1..args.S : ~ret.valid_mask[b][s]

(***************************************************************************)
(* measure_complexity, find_max_deviation_point and split_and_fit          *)
(***************************************************************************)
MaxPts == 4        \* longest point sequence handed to split_and_fit

\* the points of the sequences: the centre and the corners of a rhombus with
\* diagonals 6 and 8, so that every distance between two of them is an integer
FitPoints == {<<0, 0>>, <<3, 0>>, <<0, 4>>, <<-3, 0>>, <<0, -4>>}

PointSeqs == UNION {[1..n -> FitPoints] : n \in 2..MaxPts}

\* values of threshold_complex (default 1.01) and threshold_dev (default .5)
ComplexThresholds == {Rat(1, 2), Rat(101, 100), RInt(2)}
DevThresholds == {RInt(-1), Rat(1, 2), RInt(3), RInt(5)}

\* np.linalg.norm(q - p)
Norm(p, q) == Hypot(q[1] - p[1], q[2] - p[2])

\* arc / chord if chord > 1e-8 else 1.0
measure_complexity(segment) ==
    LET chord == Norm(segment[1], segment[Len(segment)])
        arc   == SumSeq([j \in 1..(Len(segment) - 1) |-> Norm(segment[j], segment[j + 1])])
    IN  IF chord > 0 THEN Rat(arc, chord) ELSE RInt(1)

None == -1

\* (idx, dev) with a 0-based idx, or (None, 0.0) for a chord shorter than 1e-8
find_max_deviation_point(segment) ==
    LET p0 == segment[1]
        p1 == segment[Len(segment)]
        L  == Norm(p0, p1)
        devs == [j \in 1..Len(segment) |->
                    Rat(Abs((segment[j][2] - p0[2]) * (p1[1] - p0[1])
                            - (segment[j][1] - p0[1]) * (p1[2] - p0[2])), L)]
        \* np.argmax: the first position of the largest value
        idx == CHOOSE j \in 1..Len(segment) :
                   /\ \A k \in 1..Len(segment) : RLeq(devs[k], devs[j])
                   /\ \A k \in 1..(j - 1) : devs[k] # devs[j]
    IN  IF L = 0 THEN [idx |-> None, dev |-> RInt(0)]
        ELSE [idx |-> idx - 1, dev |-> devs[idx]]

\* one fitted segment (p0, ctrl, p2, type_flag); the control point (p0 for a
\* line, the minimiser's answer for a curve) is not part of the model
Fitted(segment, type_flag) ==
    [p0 |-> segment[1], p2 |-> segment[Len(segment)], type |-> type_flag]

\* comp <= threshold_complex
TooStraight(segment, threshold_complex) ==
    RLeq(measure_complexity(segment), threshold_complex)

\* the comparison the other way round: dev >= threshold_dev
DevAbove(dev, threshold_dev) == RLeq(threshold_dev, dev)
\* dev <= threshold_dev
DevWithin(dev, threshold_dev) == RLeq(dev, threshold_dev)

\* dev <= threshold_dev or idx in (0, len(segment)-1)
FitOneCurve(segment, threshold_dev) ==
    LET m == find_max_deviation_point(segment)
    IN  DevWithin(m.dev, threshold_dev) \/ m.idx \in {0, Len(segment) - 1}

\* a split that hands the whole segment on
WholePart(segment, idx) == segment
\* segment[:idx+1] and segment[idx:] for a 0-based idx
FirstPart(segment, idx) == SubSeq(segment, 1, idx + 1)
\* a second half that starts after the split point
PartAfter(segment, idx) == SubSeq(segment, idx + 2, Len(segment))
SecondPart(segment, idx) == SubSeq(segment, idx + 1, Len(segment))

RECURSIVE split_and_fit(_, _, _)
split_and_fit(segment, threshold_complex, threshold_dev) ==
    IF TooStraight(segment, threshold_complex)
    THEN [raised |-> FALSE, segs |-> <<Fitted(segment, 0)>>]
    ELSE IF FitOneCurve(segment, threshold_dev)
    THEN [raised |-> FALSE, segs |-> <<Fitted(segment, 1)>>]
    ELSE LET idx == find_max_deviation_point(segment).idx
         IN  IF idx = None
             THEN [raised |-> TRUE, segs |-> <<>>]    \* segment[:None+1]
             ELSE LET first  == split_and_fit(FirstPart(segment, idx),
                                              threshold_complex, threshold_dev)
                      second == split_and_fit(SecondPart(segment, idx),
                                              threshold_complex, threshold_dev)
                  IN  IF first.raised \/ second.raised
                      THEN [raised |-> TRUE, segs |-> <<>>]
                      ELSE [raised |-> FALSE, segs |-> first.segs \o second.segs]

FitArgs ==
    {[points |-> s, threshold_complex |-> tc, threshold_dev |-> td] :
        s \in PointSeqs, tc \in ComplexThresholds, td \in DevThresholds}

InitFit ==
    /\ pc = "call"
    /\ args \in FitArgs
    /\ ret = Idle
    /\ samples = <<>>

CallFit ==
    /\ pc = "call"
    /\ ret' = split_and_fit(args.points, args.threshold_complex, args.threshold_dev)
    /\ pc' = "done"
    /\ UNCHANGED <<args, samples>>

NextFit == CallFit

SpecFit == InitFit /\ [][NextFit]_vars

\* all the points lie on one straight line
Collinear(points) ==
    \A j, k \in DOMAIN points :
        (points[j][1] - points[1][1]) * (points[k][2] - points[1][2])
            = (points[j][2] - points[1][2]) * (points[k][1] - points[1][1])

\* the answer "one Line from the first point to the last"
OneLine(points) == [raised |-> FALSE, segs |-> <<Fitted(points, 0)>>]

\* C16: split_and_fit with its default thresholds, applied to any sequence of
\* two or more collinear points (in any order along the line), returns
\* exactly one segment, of type Line, from the first point to the last.
C16_CollinearIsOneLine ==
    (/\ pc = "done"
     /\ args.threshold_complex = Rat(101, 100)
     /\ args.threshold_dev = Rat(1, 2)
     /\ Collinear(args.points)) => ret = OneLine(args.points)

\* C17: split_and_fit applied to any 2-point input returns exactly one
\* segment of type Line, for every value of threshold_complex and
\* threshold_dev, also when the two points coincide.
C17_TwoPointsIsLine ==
    (pc = "done" /\ Len(args.points) = 2) => ret = OneLine(args.points)

\* C18: for a fixed point sequence and a fixed threshold_complex, the number
\* of segments returned by split_and_fit never decreases when threshold_dev
\* is lowered: td1 <= td2 implies count(td1) >= count(td2) (for calls that
\* return).
C18_CountMonotone ==
    (pc = "done" /\ ~ret.raised) =>
        \A td2 \in DevThresholds :
            LET other == split_and_fit(args.points, args.threshold_complex, td2)
            IN  (RLeq(args.threshold_dev, td2) /\ ~other.raised)
                    => Len(ret.segs) >= Len(other.segs)

\* a sequence that is split under the lower threshold and fitted by one
\* curve under a higher one
C18_Witness ==
    /\ pc = "done"
    /\ ~ret.raised
    /\ Len(ret.segs) >= 2
    /\ \E td2 \in DevThresholds :
          /\ RLeq(args.threshold_dev, td2)
          /\ Len(split_and_fit(args.points, args.threshold_complex, td2).segs) = 1

(***************************************************************************)
(* The recursion of split_and_fit, one call frame at a time                *)
(***************************************************************************)
\* A frame is one active call: its segment, where it stands ("enter" before
\* the checks, "first" / "second" while that recursive call runs, "return"
\* with its list complete) and the segments it has gathered.
Frame(segment) == [seg |-> segment, stage |-> "enter", acc |-> <<>>]

Top(stack) == stack[Len(stack)]
Pop(stack) == SubSeq(stack, 1, Len(stack) - 1)
SetTop(stack, f) == Append(Pop(stack), f)

StartFit ==
    /\ pc = "call"
    /\ pc' = "run"
    /\ ret' = [stack |-> <<Frame(args.points)>>, segs |-> <<>>]
    /\ UNCHANGED <<args, samples>>

\* the call on top returns at once: one line or one fitted curve
FitBase ==
    /\ pc = "run"
    /\ Top(ret.stack).stage = "enter"
    /\ LET f == Top(ret.stack)
       IN  /\ \/ TooStraight(f.seg, args.threshold_complex)
              \/ FitOneCurve(f.seg, args.threshold_dev)
           /\ ret' = [ret EXCEPT !.stack = SetTop(@,
                        [f EXCEPT !.stage = "return",
                                  !.acc = <<Fitted(f.seg,
                                      IF TooStraight(f.seg, args.threshold_complex)
                                      THEN 0 ELSE 1)>>])]
    /\ UNCHANGED <<pc, args, samples>>

\* the call on top splits at idx and calls itself on segment[:idx+1]
FitSplit ==
    /\ pc = "run"
    /\ Top(ret.stack).stage = "enter"
    /\ LET f   == Top(ret.stack)
           idx == find_max_deviation_point(f.seg).idx
       IN  /\ ~TooStraight(f.seg, args.threshold_complex)
           /\ ~FitOneCurve(f.seg, args.threshold_dev)
           /\ idx # None
           /\ ret' = [ret EXCEPT !.stack =
                        Append(SetTop(@, [f EXCEPT !.stage = "first"]),
                               Frame(FirstPart(f.seg, idx)))]
    /\ UNCHANGED <<pc, args, samples>>

\* segment[:idx+1] with idx = None raises TypeError
FitRaise ==
    /\ pc = "run"
    /\ Top(ret.stack).stage = "enter"
    /\ LET f == Top(ret.stack)
       IN  /\ ~TooStraight(f.seg, args.threshold_complex)
           /\ ~FitOneCurve(f.seg, args.threshold_dev)
           /\ find_max_deviation_point(f.seg).idx = None
    /\ pc' = "raised"
    /\ ret' = [ret EXCEPT !.stack = <<>>]
    /\ UNCHANGED <<args, samples>>

\* the first recursive call returned: the caller calls itself on segment[idx:]
FitReturnFirst ==
    /\ pc = "run"
    /\ Len(ret.stack) >= 2
    /\ Top(ret.stack).stage = "return"
    /\ Top(Pop(ret.stack)).stage = "first"
    /\ LET caller == Top(Pop(ret.stack))
           idx    == find_max_deviation_point(caller.seg).idx
       IN  ret' = [ret EXCEPT !.stack =
                      Append(SetTop(Pop(@), [caller EXCEPT !.stage = "second",
                                                           !.acc = Top(ret.stack).acc]),
                             Frame(SecondPart(caller.seg, idx)))]
    /\ UNCHANGED <<pc, args, samples>>

\* the second recursive call returned: the caller has first + second
FitReturnSecond ==
    /\ pc = "run"
    /\ Len(ret.stack) >= 2
    /\ Top(ret.stack).stage = "return"
    /\ Top(Pop(ret.stack)).stage = "second"
    /\ LET caller == Top(Pop(ret.stack))
       IN  ret' = [ret EXCEPT !.stack =
                      SetTop(Pop(@), [caller EXCEPT !.stage = "return",
                                                    !.acc = @ \o Top(ret.stack).acc])]
    /\ UNCHANGED <<pc, args, samples>>

\* the outermost call returns its list
FitFinish ==
    /\ pc = "run"
    /\ Len(ret.stack) = 1
    /\ Top(ret.stack).stage = "return"
    /\ pc' = "done"
    /\ ret' = [stack |-> <<>>, segs |-> Top(ret.stack).acc]
    /\ UNCHANGED <<args, samples>>

NextFitRec ==
    \/ StartFit
    \/ FitBase
    \/ FitSplit
    \/ FitRaise
    \/ FitReturnFirst
    \/ FitReturnSecond
    \/ FitFinish

SpecFitRec == InitFit /\ [][NextFitRec]_vars

\* C19: every call of split_and_fit on an input of at least 2 points
\* terminates: each recursive call receives at least 2 points and strictly
\* fewer points than its caller, so the recursion depth (the number of active
\* calls) never exceeds the number of input points.
C19_RecursionShrinks ==
    pc = "run" =>
        /\ Len(ret.stack) <= Len(args.points)
        /\ \A i \in DOMAIN ret.stack :
              /\ Len(ret.stack[i].seg) >= 2
              /\ i > 1 => Len(ret.stack[i].seg) < Len(ret.stack[i - 1].seg)

\* a run three calls deep that returned
C19_Witness ==
    /\ pc = "done"
    /\ Len(ret.segs) >= 3

(***************************************************************************)
(* extract_full_contour and mask_to_spline_points                          *)
(***************************************************************************)
MaxContours == 2       \* most contours cv2.findContours returns in the model
MaxSplineSamples == 3  \* largest num_samples

\* the pixels <<x, y>> of the masks handed to extract_full_contour
ContourPixels == {<<0, 0>>, <<1, 0>>, <<0, 1>>, <<1, 1>>}
ContourW == 2
ContourH == 2

\* What cv2.findContours(mask_np, RETR_EXTERNAL, CHAIN_APPROX_NONE) can
\* return: nothing for a mask without foreground, otherwise at least one
\* contour, each a list of foreground pixels.
FoundContours(fg) ==
    IF fg = {} THEN {<<>>}
    ELSE LET one == {Where(c, ContourW, ContourH) : c \in (SUBSET fg) \ {{}}}
         IN  UNION {[1..n -> one] : n \in 1..MaxContours}

\* twice cv2.contourArea: the shoelace sum over the closed contour
ContourArea2(c) ==
    Abs(SumSeq([j \in 1..Len(c) |->
                  c[j][1] * c[(j % Len(c)) + 1][2] - c[(j % Len(c)) + 1][1] * c[j][2]]))

\* max(contours, key=cv2.contourArea): the first contour of the largest area
MaxByArea(contours) ==
    contours[CHOOSE j \in DOMAIN contours :
                /\ \A k \in DOMAIN contours : ContourArea2(contours[k]) <= ContourArea2(contours[j])
                /\ \A k \in 1..(j - 1) : ContourArea2(contours[k]) < ContourArea2(contours[j])]

\* a function that answers a mask without contour with a made-up polygon
ExtractOrFabricate(contours) ==
    IF contours = <<>>
    THEN [raised |-> FALSE, contour |-> <<<<0, 0>>, <<1, 0>>, <<1, 1>>>>]
    ELSE [raised |-> FALSE, contour |-> MaxByArea(contours)]

\* max() of an empty sequence raises ValueError
extract_full_contour(contours) ==
    IF contours = <<>>
    THEN [raised |-> TRUE, contour |-> <<>>]
    ELSE [raised |-> FALSE, contour |-> MaxByArea(contours)]

\* splprep([x, y], s=smoothing, per=True) needs more points than the spline
\* degree 3, and may fail on other inputs too (spline_fails)
SplprepRaises(contour, spline_fails) == Len(contour) <= 3 \/ spline_fails

\* a function without the except branch: a failed fit is an error
SplinePointsNoFallback(contours, W, H, num_samples, spline_fails) ==
    LET e == extract_full_contour(contours)
    IN  IF e.raised \/ SplprepRaises(e.contour, spline_fails)
        THEN [raised |-> TRUE, spline |-> FALSE, pts |-> <<>>]
        ELSE [raised |-> FALSE, spline |-> TRUE, n |-> num_samples]

\* The extraction is outside the try block, so its error propagates.  The
\* except branch resamples the raw contour; the coordinates of a fitted
\* spline are not part of the model.
mask_to_spline_points(contours, W, H, num_samples, spline_fails) ==
    LET e == extract_full_contour(contours)
    IN  IF e.raised THEN [raised |-> TRUE, spline |-> FALSE, pts |-> <<>>]
        ELSE IF SplprepRaises(e.contour, spline_fails)
        THEN LET total == Len(e.contour)
                 idx(k) == LinspaceInt(total - 1, num_samples, k - 1) + 1
             IN  [raised |-> FALSE, spline |-> FALSE,
                  pts |-> [k \in 1..num_samples |->
                             Pt(Rat(e.contour[idx(k)][1], W), Rat(e.contour[idx(k)][2], H))]]
        ELSE [raised |-> FALSE, spline |-> TRUE, n |-> num_samples]

InitContour ==
    /\ pc = "call"
    /\ \E fg \in SUBSET ContourPixels :
          args \in {[fg |-> fg, contours |-> cs, num_samples |-> n, spline_fails |-> f] :
                       cs \in FoundContours(fg), n \in 1..MaxSplineSamples, f \in BOOLEAN}
    /\ ret = Idle
    /\ samples = <<>>

ExtractFullContour ==
    /\ pc = "call"
    /\ ret' = extract_full_contour(args.contours)
    /\ pc' = "extracted"
    /\ UNCHANGED <<args, samples>>

MaskToSplinePoints ==
    /\ pc = "call"
    /\ ret' = mask_to_spline_points(args.contours, ContourW, ContourH,
                                    args.num_samples, args.spline_fails)
    /\ pc' = "sampled"
    /\ UNCHANGED <<args, samples>>

NextContour == ExtractFullContour \/ MaskToSplinePoints

SpecContour == InitContour /\ [][NextContour]_vars

\* C20: extract_full_contour on a mask with no foreground pixels (no contour
\* found) ends in a reported error and returns no contour; it never returns a
\* fabricated polygon, and mask_to_spline_points does not turn that error
\* into a resampled result.
C20_NoContourIsAnError ==
    /\ (pc = "extracted" /\ args.fg = {}) => (ret.raised /\ ret.contour = <<>>)
    /\ (pc = "sampled" /\ args.fg = {}) => (ret.raised /\ ret.pts = <<>>)
    /\ (pc = "extracted" /\ ~ret.raised) =>
          \A j \in DOMAIN ret.contour : ret.contour[j] \in args.fg

\* mask_to_spline_points was called on a mask without foreground
C20_Witness ==
    /\ pc = "sampled"
    /\ args.fg = {}
    /\ ret.raised

(***************************************************************************)
(* AugmentedDataset.__init__ over several raw entries                      *)
(***************************************************************************)
MaxRaw == 2        \* most raw entries of the dataset directory

\* the fitted outlines of one raw entry: a short one, a full table, and one
\* with more segments than the table holds
EntryOutlines == {mask_to_bezier_sequence(n, 1) : n \in {1, max_segments, MaxFitted}}

RawEntries == {[p_segs_raw |-> p, c_segs_raw |-> c] : p \in EntryOutlines, c \in EntryOutlines}

InitBuild ==
    /\ pc = "loading"
    /\ args \in {[raw |-> r] : r \in UNION {[1..n -> RawEntries] : n \in 0..MaxRaw}}
    /\ ret = [next |-> 1]
    /\ samples = <<>>

\* one iteration of `for info in raw`; nothing in the loop catches an
\* exception, so the first one leaves the constructor
LoadNext ==
    /\ pc = "loading"
    /\ ret.next <= Len(args.raw)
    /\ LET info   == args.raw[ret.next]
           p_segs == PadTable(info.p_segs_raw, Canvas)
           gt     == PadTable(info.c_segs_raw, Canvas)
       IN  IF p_segs.raised \/ gt.raised
           THEN /\ pc' = "raised"
                /\ UNCHANGED <<ret, samples>>
           ELSE /\ pc' = "loading"
                /\ ret' = [next |-> ret.next + 1]
                /\ samples' = Append(samples,
                       [parent_bezier |-> p_segs.table,
                        gt_curves     |-> gt.table,
                        lengths       |-> Len(info.c_segs_raw)])
    /\ UNCHANGED args

\* the loop is over: the constructor returns
FinishBuild ==
    /\ pc = "loading"
    /\ ret.next > Len(args.raw)
    /\ pc' = "built"
    /\ UNCHANGED <<args, ret, samples>>

NextBuild == LoadNext \/ FinishBuild

SpecBuild == InitBuild /\ [][NextBuild]_vars

\* the positions of the raw entries whose extraction succeeds
Loadable(raw) ==
    {i \in DOMAIN raw : Len(raw[i].p_segs_raw) <= max_segments
                        /\ Len(raw[i].c_segs_raw) <= max_segments}

\* C21: when geometric extraction fails for one sample while the dataset is
\* being built (here: a shape fitted with more than 30 segments), that sample
\* is skipped and the remaining samples are still loaded; one failing sample
\* does not abort the construction of the dataset.
C21_FailingSampleSkipped ==
    /\ pc # "raised"
    /\ pc = "built" => Len(samples) = Cardinality(Loadable(args.raw))

(***************************************************************************)
(* The fallback of mask_to_spline_points                                   *)
(***************************************************************************)
\* C22: when the periodic spline fit fails in mask_to_spline_points, the
\* function propagates no error and returns exactly num_samples points, each
\* a point of the raw contour (normalized by W and H) taken at an index in
\* 0..total-1, the indices being non-decreasing.
C22_FallbackResamples ==
    (/\ pc = "sampled"
     /\ args.contours # <<>>
     /\ SplprepRaises(MaxByArea(args.contours), args.spline_fails)) =>
        LET contour == MaxByArea(args.contours)
            total   == Len(contour)
        IN  /\ ~ret.raised
            /\ ~ret.spline
            /\ Len(ret.pts) = args.num_samples
            /\ \E idx \in [1..args.num_samples -> 0..(total - 1)] :
                  /\ \A k \in 1..(args.num_samples - 1) : idx[k] <= idx[k + 1]
                  /\ \A k \in 1..args.num_samples :
                        ret.pts[k] = Pt(Rat(contour[idx[k] + 1][1], ContourW),
                                        Rat(contour[idx[k] + 1][2], ContourH))

\* a failed fit on a contour of several pixels, resampled at several indices
C22_Witness ==
    /\ pc = "sampled"
    /\ args.contours # <<>>
    /\ Len(MaxByArea(args.contours)) >= 3
    /\ args.num_samples >= 2
    /\ ~ret.raised
    /\ ~ret.spline
    /\ ret.pts[1] # ret.pts[2]

(***************************************************************************)
(* Two calls of generate_deterministic_context_points                      *)
(***************************************************************************)
\* a list that still holds what an earlier call left in it
LeftoverPts(left) == left
\* pts = [] : the point list of a call starts empty, whatever an earlier call
\* left behind; the function reads no global and draws no random number
InitialPts(left) == <<>>

\* the second call, made after the first one returned or raised
CallSamplerAgain ==
    /\ pc = "done"
    /\ LET again == generate_deterministic_context_points(args.poly, args.mask,
                        args.N_total, args.N_boundary, MaskW, MaskH, ScaleX, ScaleY)
       IN  ret' = [first  |-> ret,
                   second |-> IF again.raised THEN Raised
                              ELSE Returned(InitialPts(ret.pts) \o again.pts)]
    /\ pc' = "again"
    /\ UNCHANGED <<args, samples>>

NextSamplerTwice == CallSampler \/ CallSamplerAgain

SpecSamplerTwice == InitSampler /\ [][NextSamplerTwice]_vars

ArcLength(points) == SumSeq([j \in 1..(Len(points) - 1) |-> Norm(points[j], points[j + 1])])
ChordLength(points) == Norm(points[1], points[Len(points)])

\* C24: split_and_fit returns a single Line segment for its whole input
\* exactly when the input's arc length is at most threshold_complex times its
\* chord length, for every input of at least 2 points, including an input
\* whose first and last points coincide (chord length 0).
C24_LineIffArcWithinChord ==
    pc = "done" =>
        (ret = OneLine(args.points)
            <=> RLeq(RInt(ArcLength(args.points)),
                     RMul(args.threshold_complex, RInt(ChordLength(args.points)))))

\* C25: the list returned by split_and_fit is a connected chain covering its
\* input: the first segment starts at the input's first point, the last
\* segment ends at the input's last point, and every segment's start point
\* equals the previous segment's end point.
C25_ConnectedChain ==
    (pc = "done" /\ ~ret.raised) =>
        /\ Len(ret.segs) >= 1
        /\ ret.segs[1].p0 = args.points[1]
        /\ ret.segs[Len(ret.segs)].p2 = args.points[Len(args.points)]
        /\ \A i \in 2..Len(ret.segs) : ret.segs[i].p0 = ret.segs[i - 1].p2

\* a list of a line and a curve around a split point
C25_Witness ==
    /\ pc = "done"
    /\ ~ret.raised
    /\ Len(ret.segs) >= 2
    /\ \E i, j \in DOMAIN ret.segs : ret.segs[i].type = 0 /\ ret.segs[j].type = 1

(***************************************************************************)
(* The start points of the plotted ground-truth curves                     *)
(***************************************************************************)
\* C26: in visualize_predictions the start point used for ground-truth row
\* i >= 1 is the endpoint of row i-1, and the start point used for row 0 is
\* the endpoint of the last real segment of the shape (the path is closed on
\* real segments), for every sample length in 1..T.
C26_StartsOnRealSegments ==
    (pc = "drawn" /\ ret.lengths >= 1) =>
        \E s \in DOMAIN samples :
            LET gt == samples[s].gt_curves
            IN  \A i \in 1..ret.lengths :
                    ret.plotted[i].curve[1] =
                        IF i = 1 THEN <<gt[ret.lengths][5], gt[ret.lengths][6]>>
                                 ELSE <<gt[i - 1][5], gt[i - 1][6]>>

(***************************************************************************)
(* train_batch: stop target and expected length                            *)
(***************************************************************************)
MaxStopS == 3      \* largest S of the stop scores

lambda_len == 20

\* the values of the predicted stop probabilities: sure to go on, sure to stop
StopValues == {RInt(0), RInt(1)}

\* a target that is 1 only after the last true segment
TargetStopAfter(lengths, S) ==
    [b \in DOMAIN lengths |-> [s \in 1..S |-> IF s - 1 >= lengths[b] THEN RInt(1) ELSE RInt(0)]]
\* stop_idx_gt = (lengths - 1).clamp(min=0); target_stop = (idxs_S >= stop_idx_gt).float()
target_stop(lengths, S) ==
    [b \in DOMAIN lengths |->
        [s \in 1..S |-> IF s - 1 >= Max(lengths[b] - 1, 0) THEN RInt(1) ELSE RInt(0)]]

\* torch.cumprod(probs, dim=1)[k], k in 1..Len(probs)
RECURSIVE RProdSeq(_)
RProdSeq(s) ==
    IF Len(s) = 0 THEN RInt(1)
    ELSE IF Len(s) = 1 THEN s[1]
    ELSE LET h == Len(s) \div 2
         IN  RMul(RProdSeq(SubSeq(s, 1, h)), RProdSeq(SubSeq(s, h + 1, Len(s))))
CumProd(probs, k) == RProdSeq(SubSeq(probs, 1, k))

\* the expected length of one sample from its stop probabilities
expected_length(pred_stops, S) ==
    IF S = 0 THEN RInt(0)
    ELSE IF S = 1 THEN RInt(1)
    ELSE LET prob_continue == [s \in 1..S |-> RSub(RInt(1), pred_stops[s])]
             prob_continue_for_survival ==
                 <<RInt(1)>> \o SubSeq(prob_continue, 1, S - 1)
             survival_probabilities ==
                 [k \in 1..S |-> CumProd(prob_continue_for_survival, k)]
         IN  RSumSeq(survival_probabilities)

\* lambda_len * (expected_length - lengths).abs().mean() * geom_scale
loss_count(pred_stops, lengths, S) ==
    RMul(RInt(lambda_len * geom_scale),
         RMul(RSumSeq([b \in DOMAIN lengths |->
                          RAbs(RSub(expected_length(pred_stops[b], S), RInt(lengths[b])))]),
              Rat(1, Len(lengths))))

\* the stop scores of a batch of B samples
StopScores(B, S) == [1..B -> [1..S -> StopValues]]

InitStop ==
    /\ pc = "call"
    /\ \E B \in BatchSizes, S \in 1..MaxStopS :
          \E l \in [1..B -> 0..S], p \in StopScores(B, S) :
              args = [S |-> S, lengths |-> l, pred_stops |-> p]
    /\ ret = Idle
    /\ samples = <<>>

\* steps 4 and 5 of train_batch
StopTerms ==
    /\ pc = "call"
    /\ ret' = [target_stop     |-> target_stop(args.lengths, args.S),
               expected_length |-> [b \in DOMAIN args.lengths |->
                                       expected_length(args.pred_stops[b], args.S)],
               loss_count      |-> loss_count(args.pred_stops, args.lengths, args.S)]
    /\ pc' = "done"
    /\ UNCHANGED <<args, samples>>

NextStop == StopTerms

SpecStop == InitStop /\ [][NextStop]_vars

\* C27: the stop target and the expected-length term of train_batch agree:
\* for every true length L in 0..S with S >= 1, when the predicted stop
\* probabilities equal the stop target for L, the expected length computed by
\* train_batch is max(L, 1), so the count loss is 0 for every L >= 1.
C27_ExpectedLengthMatchesTarget ==
    (pc = "done" /\ args.pred_stops = ret.target_stop) =>
        /\ \A b \in DOMAIN args.lengths :
              ret.expected_length[b] = RInt(Max(args.lengths[b], 1))
        /\ (\A b \in DOMAIN args.lengths : args.lengths[b] >= 1)
              => ret.loss_count = RInt(0)

\* a batch predicted exactly on target, one sample stopping early and one at
\* full length
C27_Witness ==
    /\ pc = "done"
    /\ args.S >= 3
    /\ args.pred_stops = ret.target_stop
    /\ \E b, c \in DOMAIN args.lengths :
          /\ args.lengths[b] = 2
          /\ args.lengths[c] = args.S
    /\ ret.loss_count = RInt(0)

(***************************************************************************)
(* The edge chosen for an extra boundary point                             *)
(***************************************************************************)
\* C28: while placing the extra boundary points,
\* generate_deterministic_context_points always selects an edge index i with
\* 0 <= i < number of edges of the closed polygon, for every polygon of 2 or
\* more vertices, including polygons with repeated vertices and polygons of
\* zero perimeter.
C28_EdgeIndexInRange ==
    (/\ pc = "done"
     /\ args.poly.present
     /\ Len(args.poly.v) >= 2
     /\ args.N_boundary > Len(args.poly.v)) =>
        LET extra == args.N_boundary - Len(args.poly.v)
        IN  \A k \in 0..(extra - 1) :
                LET i == ExtraPoint(args.poly.v, extra, k).i
                IN  0 <= i /\ i < Len(EdgeLens(args.poly.v))

(***************************************************************************)
(* The rows of the output of PolygonPredictor.forward                      *)
(***************************************************************************)
\* the endpoint columns of row i as scaled from the decoder's coordinates
ScaledEndpoint(dec, parent_bezier, i) ==
    <<ScaleCoord(dec.coords[i][5], ParentRange(parent_bezier, 1), ParentMin(parent_bezier, 1)),
      ScaleCoord(dec.coords[i][6], ParentRange(parent_bezier, 2), ParentMin(parent_bezier, 2))>>

\* the rows whose endpoint is not the sentinel
RealRows(segments) ==
    {i \in DOMAIN segments : segments[i][5] # Sentinel /\ segments[i][6] # Sentinel}

\* C29: in the output of PolygonPredictor.forward every row at a position
\* greater than the stop index has all six values equal to -1, and every row
\* at a position <= the stop index keeps its endpoint (columns 4 and 5)
\* unmasked, so the predicted sequence always has between 1 and T real rows.
C29_RowsAfterStopMasked ==
    pc = "done" =>
        /\ \A i \in DOMAIN ret.segments :
              IF i - 1 > ret.stops
              THEN ret.segments[i] = PadRow
              ELSE /\ <<ret.segments[i][5], ret.segments[i][6]>>
                         = ScaledEndpoint(args.dec, args.parent_bezier, i)
                   /\ i \in RealRows(ret.segments)
        /\ Cardinality(RealRows(ret.segments)) = ret.stops + 1
        /\ Cardinality(RealRows(ret.segments)) \in 1..Len(ret.segments)

\* an output that stops in the middle of the table, with a predicted line
\* among its real rows
C29_Witness ==
    /\ pc = "done"
    /\ ret.stops >= 1
    /\ ret.stops < Len(ret.segments) - 1
    /\ ParentMin(args.parent_bezier, 1) # Inf
    /\ \E i \in DOMAIN ret.segments : i - 1 <= ret.stops /\ ArgMax(ret.type_logits[i]) = 0

(***************************************************************************)
(* train_model_batched: the epoch loop and the checkpoints                 *)
(***************************************************************************)
MaxEpochs == 3     \* largest num_epochs

\* average epoch losses: below the early-stopping threshold 1e-6, and above
EpochLosses == {RInt(0), Rat(1, 2), RInt(1)}
OverfitThreshold == Rat(1, 1000000)

RLess(p, q) == ~RLeq(q, p)

\* the checkpoint a run resumes from, if any
NoCheckpoint == [present |-> FALSE, epoch |-> 0, best_loss |-> Inf]
Checkpoints ==
    {NoCheckpoint} \cup
    {[present |-> TRUE, epoch |-> e, best_loss |-> b] :
        e \in 0..(MaxEpochs + 1), b \in {Rat(1, 2), RInt(1)}}

\* save_checkpoint: the fields of the written file that the loop decides
save_checkpoint(epoch, current_best_loss) ==
    [present |-> TRUE, epoch |-> epoch, best_loss |-> current_best_loss]

\* start_epoch = 1, best_loss = inf, or the values of the resumed checkpoint
InitTrain ==
    /\ pc = "loop"
    /\ args \in {[num_epochs |-> n, ckpt |-> c] : n \in 1..MaxEpochs, c \in Checkpoints}
    /\ ret = [epoch     |-> IF args.ckpt.present THEN args.ckpt.epoch + 1 ELSE 1,
              best_loss |-> args.ckpt.best_loss,
              log       |-> <<>>,
              best_model |-> NoCheckpoint,
              final_model |-> NoCheckpoint]
    /\ samples = <<>>

\* one pass of `for epoch in range(start_epoch, num_epochs + 1)`: the batches
\* give an average loss, a new best is saved, a loss below 1e-6 breaks
TrainEpoch ==
    /\ pc = "loop"
    /\ ret.epoch <= args.num_epochs
    /\ \E avg_epoch_loss \in EpochLosses :
          LET better == RLess(avg_epoch_loss, ret.best_loss)
              best   == IF better THEN avg_epoch_loss ELSE ret.best_loss
          IN  /\ ret' = [ret EXCEPT
                    !.log = Append(@, [epoch |-> ret.epoch, loss |-> avg_epoch_loss]),
                    !.best_loss = best,
                    !.best_model = IF better THEN save_checkpoint(ret.epoch, best) ELSE @,
                    !.epoch = IF RLess(avg_epoch_loss, OverfitThreshold) THEN @ ELSE @ + 1]
              /\ pc' = IF RLess(avg_epoch_loss, OverfitThreshold) THEN "stopped" ELSE "loop"
    /\ UNCHANGED <<args, samples>>

\* after the loop: save_checkpoint(model, optimizer, num_epochs, best_loss, final_path)
SaveFinal ==
    /\ \/ pc = "stopped"
       \/ pc = "loop" /\ ret.epoch > args.num_epochs
    /\ ret' = [ret EXCEPT !.final_model = save_checkpoint(args.num_epochs, ret.best_loss)]
    /\ pc' = "saved"
    /\ UNCHANGED <<args, samples>>

NextTrain == TrainEpoch \/ SaveFinal

SpecTrain == InitTrain /\ [][NextTrain]_vars

\* the last epoch that was completed, by this run or by the run resumed from
LastCompletedEpoch ==
    IF ret.log # <<>> THEN ret.log[Len(ret.log)].epoch ELSE args.ckpt.epoch

\* the lowest average epoch loss seen, the resumed best included
LowestLossSeen ==
    LET seen == {args.ckpt.best_loss} \cup {ret.log[k].loss : k \in DOMAIN ret.log}
    IN  CHOOSE l \in seen : \A m \in seen : RLeq(l, m)

\* C30: the final checkpoint written by train_model_batched records the
\* number of the last epoch that was actually completed and the lowest
\* average epoch loss seen, in every run: when all epochs run, when training
\* stops early because the average loss fell below 1e-6, and when a resumed
\* run starts at an epoch beyond num_epochs.
C30_FinalCheckpointEpoch ==
    pc = "saved" =>
        /\ ret.final_model.epoch = LastCompletedEpoch
        /\ ret.final_model.best_loss = LowestLossSeen

====
